---- MODULE Spec2Model ----
(***************************************************************************)
(* pdf-to-speech: the batch runner of main.py (process_multiple_files,     *)
(* pdf_to_speech, the progress file) and the chunked synthesizer of        *)
(* text_to_speech.py, as one state machine.  The disk (progress file,      *)
(* output files, chunk files) survives a process; everything else is the   *)
(* state of the one running process and is rebuilt by Main.                *)
(*                                                                         *)
(* Three specifications:                                                   *)
(*   Spec            the program, from its start to its end, run again     *)
(*                   over the progress file it left;                       *)
(*   SpecExtract     the head of pdf_to_speech (main.py:111-115) on one    *)
(*                   document: extraction (pdf_reader.py) and the merge of *)
(*                   the metadata, whose values Spec does not follow       *)
(*                   (they steer nothing: text_to_speech.py:79,84 only     *)
(*                   test that the dict is not empty, and it never is);    *)
(*   SpecPdfToSpeech the body of pdf_to_speech (main.py:119-156) and       *)
(*                   text_to_speech on segment lists of any length and on  *)
(*                   texts of every length up to MaxTextLen.               *)
(***************************************************************************)
EXTENDS Integers, Sequences, FiniteSets, TLC

\* ---------------------------------------------------------------- bounds
\* Number of times in a row the program is started over one progress file.
\* A start that finds no progress file finds the disk as it was at first, so
\* the count begins again there.
MaxRuns == 2
\* Longest list of file names given on the command line.
MaxFiles == 2
\* Longest list of text segments pdf_to_speech is given in SpecPdfToSpeech.
MaxSegments == 2
\* Most pages of a document and most text blocks of a page in SpecExtract.
MaxPages == 2
MaxBlocks == 2
\* Longest text cut into chunks in SpecPdfToSpeech: two full chunks and one
\* character.
MaxTextLen == 6001

\* ------------------------------------------------------------- constants
\* text_to_speech.py:56
max_chunk_size == 3000

\* File names are sequences of characters.  " a.pdf" is a legal file name:
\* one name with a leading blank is kept so that the progress file's
\* write/read round trip is exercised.
NameA  == <<"a">>
NameSA == <<" ", "a">>
NameB  == <<"b">>
\* The names given on the command line are the two that differ by the blank.
ArgNames == {NameA, NameSA}

\* os.listdir('input_files') filtered on '.pdf' (main.py:278,284,288): the
\* directory holds each name once, in the order the system lists them.
DirListing == <<NameSA, NameA, NameB>>

Formats == {"mp3", "wav", "ogg"}

\* A text is kept as its length and the number of its non-whitespace
\* characters (ink): "" is (0,0), "\n" is (1,0).
Text(len, ink) == [len |-> len, ink |-> ink]
\* The texts drawn: the empty one (no chunk), a blank one (one chunk) and one
\* with ink that is one character too long for a single chunk (two chunks).
Texts == {Text(0, 0), Text(1, 0), Text(max_chunk_size + 1, max_chunk_size)}

\* segment.strip() is truthy (main.py:142)
StripTruthy(text) == text.ink > 0

\* range(start, stop, step)
RECURSIVE range(_, _, _)
range(start, stop, step) ==
    IF start >= stop THEN <<>>
    ELSE <<start>> \o range(start + step, stop, step)

Min(a, b) == IF a <= b THEN a ELSE b

\* A slice that runs past the end of the text.
SliceUnclamped(len, i, j) == [from |-> i, to |-> j]

\* text[i:j] for 0 <= i < len(text): the characters at the positions
\* from .. to - 1, the end clamped to the length of the text.
Slice(len, i, j) == [from |-> i, to |-> Min(j, len)]

\* [text[i : i + max_chunk_size] for i in range(0, len(text), max_chunk_size)]
\* (text_to_speech.py:57), each chunk as the slice of the text it is.
chunks(text) ==
    LET starts == range(0, text.len, max_chunk_size)
    IN  [k \in DOMAIN starts |->
            Slice(text.len, starts[k], starts[k] + max_chunk_size)]

\* len(chunks)
NumChunks(text) == Len(chunks(text))

SeqsUpTo(S, n) == UNION {[1..k -> S] : k \in 0..n}

\* ---------------------------------------------------------- str.strip()
IsSpace(c) == c \in {" ", "\n"}

RECURSIVE lstrip(_)
lstrip(s) == IF s # <<>> /\ IsSpace(Head(s)) THEN lstrip(Tail(s)) ELSE s

RECURSIVE rstrip(_)
rstrip(s) ==
    IF s # <<>> /\ IsSpace(s[Len(s)]) THEN rstrip(SubSeq(s, 1, Len(s) - 1)) ELSE s

strip(s) == lstrip(rstrip(s))

\* -------------------------------------------------------- documents
\* Python values of the metadata: None, or a string (a sequence of
\* characters; for a title or an author, of one token).
None == [some |-> FALSE, val |-> <<>>]
Str(s) == [some |-> TRUE, val |-> s]
\* bool(v)
Truthy(v) == v.some /\ v.val # <<>>

UnknownAuthor == Str(<<"Unknown Author">>)

MetaKeys == {"title", "author"}
\* What doc.metadata may hold for a key: nothing at all, None, '' or a value.
InfoValues == {None, Str(<<>>), Str(<<"A">>)}
Infos == UNION {[K -> InfoValues] : K \in SUBSET MetaKeys}

\* d.get(k, default)
DictGet(d, k, default) == IF k \in DOMAIN d THEN d[k] ELSE default

\* The text blocks of a page as page.get_text("blocks") gives them (b[4]),
\* in the order sorted() puts them (pdf_reader.py:65-67): a heading, a piece
\* of body text, a blank block.
RawBlocks == {<<"Chapter 1">>, <<"text">>, <<" ">>}
PagesUpTo(np, nb) == SeqsUpTo(SeqsUpTo(RawBlocks, nb), np)

\* What goes wrong with a document: nothing, fitz.open raises, reading a
\* page raises.
Faults == {"none", "open", "read"}

Doc(name, fault, info, pages) ==
    [name |-> name, fault |-> fault, info |-> info, pages |-> pages]

\* Four short documents: no page, a page of text, a blank page, a page
\* with a heading and text.
ShortPages ==
    {<<>>, << <<<<"text">>>> >>, << <<<<" ">>>> >>,
     << <<<<"Chapter 1">>, <<"text">>>> >>}

\* The short documents, with every metadata, every fault and both names.
\* Reading a page can only fail where there is one.
ShortDocs ==
    {d \in {Doc(n, f, i, p) : n \in ArgNames, f \in Faults, i \in Infos,
                              p \in ShortPages} :
        d.fault = "read" => d.pages # <<>>}

\* Every page layout, of a document that reads well.
LayoutDocs ==
    {Doc(NameA, "none", [k \in MetaKeys |-> Str(<<"A">>)], p) :
         p \in PagesUpTo(MaxPages, MaxBlocks)}

\* The documents drawn in SpecExtract.
Docs == LayoutDocs \cup ShortDocs

\* ------------------------------------------------------- pdf_reader.py
\* str.lower(), token by token
Lower(s) ==
    [i \in DOMAIN s |-> IF s[i] = "Chapter 1" THEN "chapter 1" ELSE s[i]]

\* chapter_pattern.match(s): '(chapter|section|part)\s+\d+' at the start
\* (pdf_reader.py:62, 70)
chapter_pattern_match(s) == s # <<>> /\ Head(s) = "chapter 1"

\* "\n".join(items)
RECURSIVE JoinLines(_)
JoinLines(items) ==
    IF items = <<>> THEN <<>>
    ELSE IF Len(items) = 1 THEN items[1]
    ELSE items[1] \o <<"\n">> \o JoinLines(Tail(items))

\* current_chapter is a str at first (pdf_reader.py:61) and a list once it
\* was reset (pdf_reader.py:73, 79).
PyStr == [list |-> FALSE, val |-> <<>>]
PyList(items) == [list |-> TRUE, val |-> items]

\* pdf_reader.py:69-74: one block.  A heading met while current_chapter is
\* not empty closes the chapter; the block is appended to current_chapter,
\* and appending to a str raises AttributeError.
ChapterBlock(st, raw) ==
    LET block_text == strip(raw)
        st1 == IF block_text # <<>>
                  /\ chapter_pattern_match(Lower(block_text))
                  /\ st.current_chapter.val # <<>>
               THEN [st EXCEPT
                        !.chapters =
                            Append(@, strip(JoinLines(st.current_chapter.val))),
                        !.current_chapter = PyList(<<>>)]
               ELSE st
    IN  IF ~st1.current_chapter.list THEN [st1 EXCEPT !.raised = TRUE]
        ELSE [st1 EXCEPT !.current_chapter =
                             PyList(Append(st1.current_chapter.val, block_text))]

\* pdf_reader.py:66-74: the blocks of a page, up to the first that raises
RECURSIVE ChapterBlocks(_, _)
ChapterBlocks(st, blocks) ==
    IF blocks = <<>> \/ st.raised THEN st
    ELSE ChapterBlocks(ChapterBlock(st, Head(blocks)), Tail(blocks))

\* pdf_reader.py:77-79: at the end of a page the chapter formed is appended
ChapterPageEnd(st) ==
    IF st.raised \/ st.current_chapter.val = <<>> THEN st
    ELSE [st EXCEPT
             !.chapters = Append(@, strip(JoinLines(st.current_chapter.val))),
             !.current_chapter = PyList(<<>>)]

\* pdf_reader.py:64-79
RECURSIVE ChapterPages(_, _)
ChapterPages(st, pages) ==
    IF pages = <<>> \/ st.raised THEN st
    ELSE ChapterPages(ChapterPageEnd(ChapterBlocks(st, Head(pages))),
                      Tail(pages))

\* pdf_reader.py:51-81: the chapters returned, or raised when the function
\* raised (nothing is returned then).
extract_chapters(d) ==
    LET st == ChapterPages([chapters |-> <<>>, current_chapter |-> PyStr,
                            raised |-> d.fault = "read"], d.pages)
    IN  [raised |-> st.raised,
         chapters |-> IF st.raised THEN <<>> ELSE st.chapters]

\* A string as the batch runner sees it: its length and its ink.
TextOf(s) ==
    Text(Len(s), Cardinality({i \in DOMAIN s : ~IsSpace(s[i])}))

\* "\n".join(page.get_text() for page in doc)  (pdf_reader.py:37): nothing
\* for a document without pages, blanks for blank pages, and else a text
\* with ink, here always one character too long for a single chunk.
full_text(d) ==
    IF d.pages = <<>> THEN Text(0, 0)
    ELSE IF \A i \in DOMAIN d.pages : \A j \in DOMAIN d.pages[i] :
                strip(d.pages[i][j]) = <<>>
         THEN Text(1, 0)
         ELSE Text(max_chunk_size + 1, max_chunk_size)

\* The handler with the metadata gathered before the failure kept.
RecoveredKeepsMetadata(d) ==
    [segments |-> <<>>,
     metadata |-> [title |-> DictGet(d.info, "title", Str(d.name)),
                   author |-> DictGet(d.info, "author", UnknownAuthor)]]

\* pdf_reader.py:40-45: the except handler
Recovered(d) ==
    [segments |-> <<>>,
     metadata |-> [title |-> Str(d.name), author |-> UnknownAuthor]]

\* pdf_reader.py:12-48
extract_text_and_metadata_from_pdf(d, by_chapter) ==
    LET metadata == [title |-> DictGet(d.info, "title", Str(d.name)),
                     author |-> DictGet(d.info, "author", UnknownAuthor)]
        chapters == extract_chapters(d)
    IN  IF d.fault = "open" THEN Recovered(d)
        ELSE IF by_chapter THEN
            IF chapters.raised THEN Recovered(d)
            ELSE [segments |-> [i \in DOMAIN chapters.chapters |->
                                    TextOf(chapters.chapters[i])],
                  metadata |-> metadata]
        ELSE IF d.fault = "read" THEN Recovered(d)
        ELSE [segments |-> <<full_text(d)>>, metadata |-> metadata]

\* The segment lists extraction hands to pdf_to_speech (main.py:111),
\* without and with --segment-by-chapter: those of the short documents (in
\* SpecExtract the other page layouts give no other).
SegmentsPlain ==
    {extract_text_and_metadata_from_pdf(d, FALSE).segments : d \in ShortDocs}
SegmentsByChapter ==
    {extract_text_and_metadata_from_pdf(d, TRUE).segments : d \in ShortDocs}

\* main.py:262-264: the fields given on the command line, the falsy dropped
UserMetadata(title, author) ==
    [k \in {j \in MetaKeys :
                Truthy(IF j = "title" THEN title ELSE author)} |->
        IF k = "title" THEN title ELSE author]

\* args.title, args.author: not given, '' or a value
ArgValues == {None, Str(<<>>), Str(<<"C">>)}

\* The merge with the fields of the document winning.
MergeMetadataExtractedWins(extracted, user) ==
    [k \in DOMAIN extracted \cup DOMAIN user |->
        IF k \in DOMAIN extracted THEN extracted[k] ELSE user[k]]

\* {**extracted_metadata, **(user_metadata or {})}  (main.py:115)
MergeMetadata(extracted, user) ==
    [k \in DOMAIN extracted \cup DOMAIN user |->
        IF k \in DOMAIN user THEN user[k] ELSE extracted[k]]

\* ------------------------------------------------------- progress file
\* The file is absent, or holds one line per item.
NoFile == [exists |-> FALSE, lines |-> <<>>]

\* save_progress called before the append: the last item is not written.
save_progress_stale(processed) ==
    [exists |-> TRUE, lines |-> SubSeq(processed, 1, Len(processed) - 1)]

\* main.py:48-57: open(..., 'w') and one line per item
save_progress(processed) == [exists |-> TRUE, lines |-> processed]

\* main.py:60-73: [] when absent, else every line stripped
load_progress(file) ==
    IF ~file.exists THEN <<>>
    ELSE [i \in DOMAIN file.lines |-> strip(file.lines[i])]

\* clear_progress without its os.remove.
clear_progress_keeps(file) == file

\* main.py:76-87
clear_progress(file) == NoFile

InSeq(x, s) == \E i \in DOMAIN s : s[i] = x

\* [f for f in files if f not in processed]  (main.py:184, 282-286)
RECURSIVE NotIn(_, _)
NotIn(files, processed) ==
    IF files = <<>> THEN <<>>
    ELSE IF InSeq(Head(files), processed) THEN NotIn(Tail(files), processed)
         ELSE <<Head(files)>> \o NotIn(Tail(files), processed)

\* ------------------------------------------------------------ file names
\* main.py:121 (seg = 0: "{base}.{format}") and main.py:139-141
\* (seg = i: "{base}_segment_{i}.{format}")
OutputName(base, seg, fmt) == [base |-> base, seg |-> seg, format |-> fmt]

\* text_to_speech.py:64
ChunkName(out, i) == [out |-> out, chunk |-> i]

\* ----------------------------------------------------------------- state
VARIABLES
    \* the disk.  Only the progress file is ever read back by a later
    \* process; of the output directory the model keeps what was written for
    \* the document converted last.
    progress_file,    \* 'progress.txt': NoFile or [exists, lines]
    exported,         \* output files written for the document being converted
    chunk_files,      \* chunk files the process created and has not removed
    \* the process
    pc,               \* where the process is; "idle" before the first start
    exit_status,      \* of the process, once it has ended
    resume,           \* args.resume
    format,           \* args.format
    segment_by_chapter, \* args.segment_by_chapter
    files,            \* process_multiple_files' files (all_pdfs)
    processed_files,  \* main.py:181
    files_to_process, \* main.py:184
    file_idx,         \* position of the for loop of main.py:190 (1-based)
    text_segments,    \* main.py:111
    seg_idx,          \* position of the loop of main.py:134 (1-based)
    output_file,      \* text_to_speech's output_file
    chunk_idx,        \* position of the loop of text_to_speech.py:62 (1-based)
    combined,         \* the running track: indices of the chunks appended
    \* history (read by the properties only)
    runs,             \* starts of the program since the progress file was
                      \* last absent
    completed,        \* documents whose pdf_to_speech returned since the
                      \* progress file was last absent
    start_file,       \* the progress file as this process found it
    silent,           \* those of completed that were given no segment, and
                      \* so no output file
    last,             \* how the process ended, once it has: the outcome, the
                      \* documents it completed (done), those it left
                      \* (pending, the first being the one that failed),
                      \* whether part of that one was already converted (a
                      \* chunk appended to the track or a segment exported)
                      \* and the step that raised (at) with the output
                      \* file it was working for (out)
    rerun,            \* the process before this one failed inside
                      \* process_multiple_files and this one has the same list
    retry,            \* with rerun: the documents that process was converting
                      \* when it failed, if part of one was already converted
    \* the head of pdf_to_speech on one document (SpecExtract)
    doc,              \* the document at pdf_path
    user_metadata,    \* main.py:262-264
    chapters,         \* what extract_chapters returned, or that it raised
    extracted_metadata, \* main.py:111
    metadata          \* main.py:115

disk == <<progress_file, exported, chunk_files>>
args_v == <<resume, format, segment_by_chapter, files>>
batch_v == <<processed_files, files_to_process, file_idx>>
doc_v == <<text_segments, seg_idx>>
tts_v == <<output_file, chunk_idx, combined>>
proc == <<pc, exit_status, args_v, batch_v, doc_v, tts_v>>
hist == <<runs, completed, silent, start_file, last, rerun, retry>>
head_v == <<doc, user_metadata, chapters, extracted_metadata, metadata>>
vars == <<disk, proc, hist, head_v>>

NoOutput == OutputName(<<>>, 0, "mp3")
Running == [outcome |-> "running", pending |-> <<>>, done |-> {},
            partial |-> FALSE, at |-> "none", out |-> NoOutput]

NoDoc == Doc(<<>>, "none", <<>>, <<>>)
NoChapters == [raised |-> FALSE, chapters |-> <<>>]
NoMetadata == [title |-> None, author |-> None]

\* Nothing of the head of pdf_to_speech is followed.
HeadIdle ==
    /\ doc = NoDoc
    /\ user_metadata = <<>>
    /\ chapters = NoChapters
    /\ extracted_metadata = NoMetadata
    /\ metadata = NoMetadata

Init ==
    /\ progress_file = NoFile
    /\ exported = {}
    /\ chunk_files = {}
    /\ pc = "idle"
    /\ exit_status = 0
    /\ resume = FALSE
    /\ format = "mp3"
    /\ segment_by_chapter = FALSE
    /\ files = <<>>
    /\ processed_files = <<>>
    /\ files_to_process = <<>>
    /\ file_idx = 1
    /\ text_segments = <<>>
    /\ seg_idx = 1
    /\ output_file = NoOutput
    /\ chunk_idx = 1
    /\ combined = <<>>
    /\ runs = 0
    /\ completed = {}
    /\ silent = {}
    /\ start_file = NoFile
    /\ last = Running
    /\ rerun = FALSE
    /\ retry = {}
    /\ HeadIdle

\* The process is inside text_to_speech.
InTts == pc \in {"tts_save", "tts_load", "tts_export", "tts_tag"}
\* The process is inside pdf_to_speech.
InPdfToSpeech == pc = "segments" \/ InTts

\* The document the for loop of main.py:190 is at.
pdf_file == files_to_process[file_idx]
\* os.path.splitext(os.path.basename(pdf_path))[0]  (main.py:116): names are
\* kept without their '.pdf'.
base_filename == pdf_file
\* The text text_to_speech was called with.
tts_text == text_segments[seg_idx]
\* The documents pdf_to_speech was called on by this process, in order.
invoked ==
    SubSeq(files_to_process, 1,
           IF InPdfToSpeech THEN file_idx ELSE file_idx - 1)

\* The for loop of text_to_speech.py:62 ended after its first chunk.
ChunksLeftFirstOnly == chunk_idx <= Min(1, NumChunks(tts_text))

\* text_to_speech.py:62: the for loop has a chunk to take
ChunksLeft == chunk_idx <= NumChunks(tts_text)

\* The step of text_to_speech the process is at.
TtsStep ==
    IF pc = "tts_save" THEN (IF ChunksLeft THEN "save" ELSE "export")
    ELSE IF pc = "tts_load" THEN "load"
    ELSE IF pc = "tts_tag" THEN "tag"
    ELSE "none"

\* The process is gone, and its memory with it: what stays is the disk, the
\* exit status and the command line it was started with.
Exit(status, outcome) ==
    /\ pc' = "exited"
    /\ exit_status' = status
    /\ processed_files' = <<>>
    /\ files_to_process' = <<>>
    /\ file_idx' = 1
    /\ text_segments' = <<>>
    /\ seg_idx' = 1
    /\ output_file' = NoOutput
    /\ chunk_idx' = 1
    /\ combined' = <<>>
    /\ last' = [outcome |-> outcome,
                pending |-> SubSeq(files_to_process, file_idx,
                                   Len(files_to_process)),
                done |-> {files_to_process[i] : i \in 1..(file_idx - 1)},
                partial |-> InTts /\ (combined # <<>> \/ exported # {}),
                at |-> TtsStep,
                out |-> output_file]

\* An exception nobody catches: traceback, exit status 1.  No handler runs
\* on the way out (there is no try/finally in main.py or text_to_speech.py).
Raise == Exit(1, "failed")

\* ------------------------------------------------------------- __main__
\* os.listdir(input_dir) filtered on '.pdf' (main.py:278, 288)
ListDir == DirListing

\* main.py:271-290: the list handed to process_multiple_files
AllPdfs(pdf_files, res, all) ==
    IF res THEN
        IF all THEN ListDir
        ELSE NotIn(ListDir, load_progress(progress_file))
    ELSE IF all THEN ListDir
    ELSE pdf_files

\* The check of main.py:272 left out.
ResumeNeverRefused(res) == FALSE

\* main.py:271-276: a resume without a progress file stops the program
ResumeRefused(res) == res /\ ~progress_file.exists

\* args.pdf_files: any list of names, the same name twice included.  With
\* --resume or --all the list is not read (main.py:271-288), so none is drawn.
PdfFilesArgs(res, all) ==
    IF res \/ all THEN {<<>>} ELSE SeqsUpTo(ArgNames, MaxFiles)

\* main.py:255-305: the program is started.  It stops with status 1 when a
\* resume finds no progress file, ends with a warning when there is nothing
\* to do, and calls process_multiple_files otherwise.
Main ==
    /\ pc \in {"idle", "exited"}
    /\ runs < MaxRuns \/ ~progress_file.exists
    /\ \E res \in BOOLEAN, all \in BOOLEAN, fmt \in Formats,
          by_chapter \in BOOLEAN :
       \E pdf_files \in PdfFilesArgs(res, all) :
        /\ resume' = res
        /\ format' = fmt
        /\ segment_by_chapter' = by_chapter
        /\ IF ResumeRefused(res) THEN
               /\ pc' = "exited"
               /\ exit_status' = 1
               /\ files' = <<>>
               /\ last' = [Running EXCEPT !.outcome = "refused"]
           ELSE IF AllPdfs(pdf_files, res, all) = <<>> THEN
               /\ pc' = "exited"
               /\ exit_status' = 0
               /\ files' = <<>>
               /\ last' = [Running EXCEPT !.outcome = "no_files"]
           ELSE
               /\ pc' = "batch"
               /\ exit_status' = 0
               /\ files' = AllPdfs(pdf_files, res, all)
               /\ last' = Running
        /\ rerun' = (last.outcome = "failed" /\ files' = files)
        /\ retry' = IF last.outcome = "failed" /\ files' = files /\ last.partial
                    THEN {Head(last.pending)} ELSE {}
    /\ runs' = IF progress_file.exists THEN runs + 1 ELSE 1
    /\ exported' = {}
    /\ chunk_files' = {}
    /\ start_file' = progress_file
    /\ UNCHANGED <<progress_file, batch_v, doc_v, tts_v, completed, silent,
                   head_v>>

\* ------------------------------------------------ process_multiple_files
\* main.py:181-188: load the progress, keep the files not yet processed,
\* return at once when none is left.
LoadAndFilter ==
    /\ pc = "batch"
    /\ IF NotIn(files, load_progress(progress_file)) = <<>> THEN
           /\ Exit(0, "nothing")
       ELSE
           /\ processed_files' = load_progress(progress_file)
           /\ files_to_process' = NotIn(files, load_progress(progress_file))
           /\ pc' = "loop"
           /\ UNCHANGED <<exit_status, file_idx, doc_v, tts_v, last>>
    /\ UNCHANGED <<disk, args_v, runs, completed, silent, start_file, rerun,
                   retry, head_v>>

\* What extract_text_and_metadata_from_pdf may hand back (main.py:111-113)
ExtractedSegments ==
    IF segment_by_chapter THEN SegmentsByChapter ELSE SegmentsPlain

\* main.py:190-199, 111-116: the loop takes the next file and calls
\* pdf_to_speech, which extracts the text segments.
NextFile ==
    /\ pc = "loop"
    /\ file_idx <= Len(files_to_process)
    /\ \E segs \in ExtractedSegments : text_segments' = segs
    /\ seg_idx' = 1
    /\ exported' = {}
    /\ pc' = "segments"
    /\ UNCHANGED <<progress_file, chunk_files, exit_status, args_v, batch_v,
                   tts_v, hist, head_v>>

\* main.py:119: one segment is converted under the base name, whatever it
\* holds; main.py:142: of several, only those with ink are converted.
CallsTts == Len(text_segments) = 1 \/ StripTruthy(tts_text)

\* The segment index used as enumerate gives it, without the + 1.
OutputAudioFileZeroBased ==
    IF Len(text_segments) = 1 THEN OutputName(base_filename, 0, format)
    ELSE OutputName(base_filename, seg_idx - 1, format)

\* main.py:121 and 139-141
OutputAudioFile ==
    IF Len(text_segments) = 1 THEN OutputName(base_filename, 0, format)
    ELSE OutputName(base_filename, seg_idx, format)

\* main.py:119-156: pdf_to_speech handles the segment it is at: it calls
\* text_to_speech (text_to_speech.py:50-59: the chunks are cut, the track
\* starts empty) or logs the skip and goes on.
Segment ==
    /\ pc = "segments"
    /\ seg_idx <= Len(text_segments)
    /\ IF CallsTts THEN
           /\ output_file' = OutputAudioFile
           /\ chunk_idx' = 1
           /\ combined' = <<>>
           /\ pc' = "tts_save"
           /\ seg_idx' = seg_idx
       ELSE
           /\ seg_idx' = seg_idx + 1
           /\ pc' = "segments"
           /\ UNCHANGED tts_v
    /\ UNCHANGED <<disk, exit_status, args_v, batch_v, text_segments, hist,
                   head_v>>

\* main.py:202-203: pdf_to_speech has returned; the file is appended to
\* processed_files and the progress file is rewritten.
Checkpoint ==
    /\ pc = "segments"
    /\ seg_idx > Len(text_segments)
    /\ processed_files' = Append(processed_files, pdf_file)
    /\ progress_file' = save_progress(Append(processed_files, pdf_file))
    /\ completed' = completed \cup {pdf_file}
    /\ silent' = IF text_segments = <<>> THEN silent \cup {pdf_file}
                 ELSE silent \ {pdf_file}
    /\ file_idx' = file_idx + 1
    /\ pc' = "loop"
    /\ UNCHANGED <<exported, chunk_files, exit_status, args_v,
                   files_to_process, doc_v, tts_v, runs, start_file, last,
                   rerun, retry, head_v>>

\* main.py:206: every file of the loop is done; the progress file is removed
\* and the program ends.
Finish ==
    /\ pc = "loop"
    /\ file_idx > Len(files_to_process)
    /\ progress_file' = clear_progress(progress_file)
    /\ completed' = {}
    /\ silent' = {}
    /\ Exit(0, "done")
    /\ UNCHANGED <<exported, chunk_files, args_v, runs, start_file, rerun,
                   retry, head_v>>

\* --------------------------------------------------------- text_to_speech
chunk_file == ChunkName(output_file, chunk_idx)

\* text_to_speech.py:79, 84: the formats that get tags.  metadata is never
\* empty: it always holds the extractor's 'title' and 'author' keys
\* (main.py:115).
HasTags(fmt) == fmt \in {"mp3", "ogg"}

\* text_to_speech returns to pdf_to_speech, which goes on to the next
\* segment (main.py:129, 150).
TtsReturn ==
    /\ pc' = "segments"
    /\ seg_idx' = seg_idx + 1
    /\ UNCHANGED <<exit_status, batch_v, text_segments, tts_v, last>>

\* text_to_speech.py:63-65: the backend synthesizes the chunk into its chunk
\* file, or raises; gTTS.save opens the file before it asks the service, so
\* a failed save may leave the file behind.
TtsSave ==
    /\ pc = "tts_save"
    /\ ChunksLeft
    /\ \/ /\ chunk_files' = chunk_files \cup {chunk_file}
          /\ pc' = "tts_load"
          /\ UNCHANGED <<exit_status, batch_v, doc_v, tts_v, last>>
       \/ /\ chunk_files' \in {chunk_files, chunk_files \cup {chunk_file}}
          /\ Raise
    /\ UNCHANGED <<progress_file, exported, args_v, runs, completed, silent,
                   start_file, rerun, retry, head_v>>

\* The clip put in front of the track.
PrependClip(track, i) == <<i>> \o track

\* combined += audio  (text_to_speech.py:72)
AppendClip(track, i) == Append(track, i)

\* text_to_speech.py:67-73: the chunk file is loaded, appended to the track
\* and removed; a load that raises leaves it where it is.
TtsLoad ==
    /\ pc = "tts_load"
    /\ \/ /\ combined' = AppendClip(combined, chunk_idx)
          /\ chunk_files' = chunk_files \ {chunk_file}
          /\ chunk_idx' = chunk_idx + 1
          /\ pc' = "tts_save"
          /\ UNCHANGED <<exit_status, batch_v, doc_v, output_file, last>>
       \/ /\ Raise
          /\ UNCHANGED chunk_files
    /\ UNCHANGED <<progress_file, exported, args_v, runs, completed, silent,
                   start_file, rerun, retry, head_v>>

\* text_to_speech.py:76: after the last chunk the track is exported; an
\* export that raises may have created the output file already.  Formats
\* without tags return here (text_to_speech.py:90-91).
TtsExport ==
    /\ pc = "tts_save"
    /\ ~ChunksLeft
    /\ \/ /\ exported' = exported \cup {output_file}
          /\ IF HasTags(format)
             THEN /\ pc' = "tts_tag"
                  /\ UNCHANGED <<exit_status, batch_v, doc_v, tts_v, last>>
             ELSE TtsReturn
       \/ /\ exported' \in {exported, exported \cup {output_file}}
          /\ Raise
    /\ UNCHANGED <<progress_file, chunk_files, args_v, runs, completed,
                   silent, start_file, rerun, retry, head_v>>

\* text_to_speech.py:79-91: title and author are written into the exported
\* file, or the tag library raises.
TtsTag ==
    /\ pc = "tts_tag"
    /\ \/ TtsReturn
       \/ Raise
    /\ UNCHANGED <<disk, args_v, runs, completed, silent, start_file, rerun,
                   retry, head_v>>

\* ------------------------------------------------------- specification
Next ==
    \/ Main
    \/ LoadAndFilter
    \/ NextFile
    \/ Segment
    \/ Checkpoint
    \/ Finish
    \/ TtsSave
    \/ TtsLoad
    \/ TtsExport
    \/ TtsTag

Spec == Init /\ [][Next]_vars

\* ------------------------------------- the head of pdf_to_speech, alone
\* pdf_to_speech is entered for one document, with any command line.  The
\* page layouts are drawn without metadata of the caller.
InitExtract ==
    /\ progress_file = NoFile
    /\ exported = {}
    /\ chunk_files = {}
    /\ pc = "pdf_to_speech"
    /\ exit_status = 0
    /\ resume = FALSE
    /\ format = "mp3"
    /\ segment_by_chapter \in BOOLEAN
    /\ files = <<>>
    /\ processed_files = <<>>
    /\ files_to_process = <<>>
    /\ file_idx = 1
    /\ text_segments = <<>>
    /\ seg_idx = 1
    /\ output_file = NoOutput
    /\ chunk_idx = 1
    /\ combined = <<>>
    /\ runs = 1
    /\ completed = {}
    /\ silent = {}
    /\ start_file = NoFile
    /\ last = Running
    /\ rerun = FALSE
    /\ retry = {}
    /\ doc \in Docs
    /\ user_metadata \in
           IF doc.pages \notin ShortPages
           THEN {UserMetadata(None, None)}
           ELSE {UserMetadata(t, a) : t \in ArgValues, a \in ArgValues}
    /\ chapters = NoChapters
    /\ extracted_metadata = NoMetadata
    /\ metadata = NoMetadata

\* main.py:111-113: the call of extract_text_and_metadata_from_pdf, with the
\* call of extract_chapters it makes (pdf_reader.py:32-33)
Extract ==
    /\ pc = "pdf_to_speech"
    /\ text_segments' =
           extract_text_and_metadata_from_pdf(doc, segment_by_chapter).segments
    /\ extracted_metadata' =
           extract_text_and_metadata_from_pdf(doc, segment_by_chapter).metadata
    /\ chapters' = IF doc.fault # "open" /\ segment_by_chapter
                   THEN extract_chapters(doc) ELSE NoChapters
    /\ pc' = "extracted"
    /\ UNCHANGED <<disk, exit_status, args_v, batch_v, seg_idx, tts_v, hist,
                   doc, user_metadata, metadata>>

\* main.py:115
Merge ==
    /\ pc = "extracted"
    /\ metadata' = MergeMetadata(extracted_metadata, user_metadata)
    /\ pc' = "merged"
    /\ UNCHANGED <<disk, exit_status, args_v, batch_v, doc_v, tts_v, hist,
                   doc, user_metadata, chapters, extracted_metadata>>

NextExtract ==
    \/ Extract
    \/ Merge

SpecExtract == InitExtract /\ [][NextExtract]_vars

\* ------------------------- the body of pdf_to_speech and text_to_speech
\* pdf_to_speech has its segments: a list of any length of the texts of
\* Texts, in any format, or one text of any length up to MaxTextLen.
InitPdfToSpeech ==
    /\ progress_file = NoFile
    /\ exported = {}
    /\ chunk_files = {}
    /\ pc = "segments"
    /\ exit_status = 0
    /\ resume = FALSE
    /\ segment_by_chapter = FALSE
    /\ files = <<NameA>>
    /\ processed_files = <<>>
    /\ files_to_process = <<NameA>>
    /\ file_idx = 1
    /\ \/ /\ text_segments \in SeqsUpTo(Texts, MaxSegments)
          /\ format \in Formats
       \/ /\ text_segments \in {<<Text(n, n)>> : n \in 0..MaxTextLen}
          /\ format = "mp3"
    /\ seg_idx = 1
    /\ output_file = NoOutput
    /\ chunk_idx = 1
    /\ combined = <<>>
    /\ runs = 1
    /\ completed = {}
    /\ silent = {}
    /\ start_file = NoFile
    /\ last = Running
    /\ rerun = FALSE
    /\ retry = {}
    /\ HeadIdle

NextPdfToSpeech ==
    \/ Segment
    \/ TtsSave
    \/ TtsLoad
    \/ TtsExport
    \/ TtsTag

SpecPdfToSpeech == InitPdfToSpeech /\ [][NextPdfToSpeech]_vars

\* ----------------------------------------------------------- properties
\* The lines of the progress file, as written.
Listed == {progress_file.lines[i] : i \in DOMAIN progress_file.lines}
ListedAtStart == {start_file.lines[i] : i \in DOMAIN start_file.lines}

\* files without the documents the progress file listed at the start.
RECURSIVE Remaining(_)
Remaining(fs) ==
    IF fs = <<>> THEN <<>>
    ELSE IF Head(fs) \in ListedAtStart THEN Remaining(Tail(fs))
         ELSE <<Head(fs)>> \o Remaining(Tail(fs))

IsPrefix(s, t) == Len(s) <= Len(t) /\ SubSeq(t, 1, Len(s)) = s

\* The process is inside the loop of process_multiple_files.
InLoop == pc = "loop" \/ InPdfToSpeech

\* C1 (resumption).  A run that follows a failed run, has the same list and
\* finds the progress file: it calls pdf_to_speech on no document the file
\* lists, on exactly the remaining documents of the list in their order, and
\* when the last of them is done the progress file is gone.
C1_Resumption ==
    (rerun /\ start_file.exists) =>
        /\ InPdfToSpeech => pdf_file \notin ListedAtStart
        /\ InLoop => IsPrefix(invoked, Remaining(files))
        /\ (pc = "loop" /\ file_idx > Len(files_to_process)) =>
               invoked = Remaining(files)
        /\ (pc = "exited" /\ last.outcome = "done") => ~progress_file.exists

\* C2 (a failure does not stop the batch).  A process that entered
\* process_multiple_files does not crash, and leaves no document of its work
\* list unvisited: after a failed document the later ones are still processed.
C2_BatchContinues ==
    (pc = "exited" /\ files # <<>>) =>
        /\ exit_status = 0
        /\ last.outcome # "failed"
        /\ Len(last.pending) = 0

\* C3 (progress-record invariant).  Between two documents of a batch run the
\* progress file lists exactly the documents whose pdf_to_speech ran to
\* completion.
C3_ListedIffCompleted ==
    pc = "loop" => Listed = completed

C5_CheckpointBeforeNext ==
    /\ InLoop =>
           /\ \A i \in 1..(file_idx - 1) : files_to_process[i] \in Listed
           /\ Len(progress_file.lines) = Len(start_file.lines) + file_idx - 1
           /\ file_idx > 1 =>
                  /\ progress_file.exists
                  /\ progress_file.lines[Len(progress_file.lines)]
                         = files_to_process[file_idx - 1]
    /\ (pc = "exited" /\ last.outcome = "failed") => last.done \subseteq Listed

\* C5's case: the process failed in a document after it had completed one.
C5_Witness ==
    pc = "exited" /\ last.outcome = "failed" /\ last.done # {}

\* C6 (no partial resume).  A process that fails after part of a document
\* was converted leaves that document out of the progress file, and the next
\* run with the same list converts it again.
C6_MidDocumentRetry ==
    /\ (pc = "exited" /\ last.outcome = "failed" /\ last.partial) =>
           Head(last.pending) \notin Listed
    /\ (retry # {} /\ InLoop) =>
           \A d \in retry : InSeq(d, files_to_process)
    /\ (retry # {} /\ pc = "exited") => last.outcome # "nothing"

\* C7 (resume without a progress file).  Such a process ends at once with
\* status 1: process_multiple_files is not entered, nothing is extracted or
\* synthesized, no output or chunk file is written, no progress file made.
C7_ResumeNeedsProgress ==
    (resume /\ ~start_file.exists) =>
        /\ pc = "exited"
        /\ exit_status = 1
        /\ last.outcome = "refused"
        /\ files = <<>>
        /\ text_segments = <<>>
        /\ exported = {}
        /\ chunk_files = {}
        /\ ~progress_file.exists

\* C7's case: a resume was asked for and there was no progress file.
C7_Witness ==
    resume /\ ~start_file.exists /\ pc = "exited" /\ exit_status = 1

\* C8 (blank segments are not synthesized).  text_to_speech is never running
\* on a text without ink.
C8_NoBlankSynthesis ==
    InTts => StripTruthy(tts_text)

\* The files pdf_to_speech is to write for the segments it was given.
ExpectedOutputs ==
    IF Len(text_segments) = 1 THEN {OutputName(base_filename, 0, format)}
    ELSE {OutputName(base_filename, i, format) :
              i \in {j \in 1..Len(text_segments) : StripTruthy(text_segments[j])}}

\* C9 (output naming).  When pdf_to_speech returns, the files it wrote are
\* B.F for a single segment and, for several, B_segment_i.F for exactly the
\* positions i of the segments with ink; before that it has written no other.
C9_OutputNaming ==
    /\ InPdfToSpeech => exported \subseteq ExpectedOutputs
    /\ (pc = "segments" /\ seg_idx > Len(text_segments)) =>
           exported = ExpectedOutputs

\* C9's case: of two segments the first was skipped and the second written
\* under index 2.
C9_Witness ==
    /\ pc = "segments"
    /\ Len(text_segments) = 2
    /\ seg_idx > Len(text_segments)
    /\ ~StripTruthy(text_segments[1])
    /\ exported = {OutputName(base_filename, 2, format)}

\* C10 (chunk files are removed on every exit path).  Outside text_to_speech,
\* after it returned or raised, no chunk file is left.
C10_NoChunkFileLeft ==
    ~InTts => chunk_files = {}

\* C11 (a tagging failure is not fatal).  No process ends because the tags
\* could not be written: the failure is logged, the document is recorded and
\* the batch goes on.
C11_TaggingNonFatal ==
    (pc = "exited" /\ last.outcome = "failed") => last.at # "tag"

\* The work list of the process and the number of its documents that were
\* completed, once the process has ended.
WorkList == NotIn(files, load_progress(start_file))
NumDone == Len(WorkList) - Len(last.pending)

\* C12 (no partial file).  The output file of a segment is written only when
\* every chunk of the segment is in the track; a process that ends because
\* the synthesis of a chunk failed (the save or the load of its chunk file)
\* has not written the output file of that segment, and its progress file
\* holds what it held after the last completed document: no line was added
\* for the failed one.
C12_NoPartialEmission ==
    /\ (InTts /\ output_file \in exported) =>
           Len(combined) = NumChunks(tts_text)
    /\ (pc = "exited" /\ last.at \in {"save", "load"}) =>
           /\ last.out \notin exported
           /\ IF NumDone = 0 THEN progress_file = start_file
              ELSE progress_file.lines =
                       load_progress(start_file) \o SubSeq(WorkList, 1, NumDone)

\* C12's case: the first chunk was in the track when the synthesis of the
\* second failed.
C12_Witness ==
    pc = "exited" /\ last.at \in {"save", "load"} /\ last.partial

\* C13 (chunk partition).  The chunks of a text of length L: there are
\* ceil(L / M) of them, each of 1 to M characters, the first starts the
\* text, each starts where the one before ends, the last ends the text.
C13_ChunkPartition ==
    InTts =>
        LET cs == chunks(tts_text)
            L == tts_text.len
            n == Len(cs)
        IN  /\ n = (L + max_chunk_size - 1) \div max_chunk_size
            /\ \A k \in 1..n : /\ cs[k].to - cs[k].from >= 1
                               /\ cs[k].to - cs[k].from <= max_chunk_size
            /\ n > 0 => (cs[1].from = 0 /\ cs[n].to = L)
            /\ \A k \in 1..(n - 1) : cs[k + 1].from = cs[k].to

\* C13's case: a text of two full chunks and a rest was cut and all its
\* chunks went into the track.
C13_Witness ==
    /\ pc = "tts_tag"
    /\ tts_text.len > 2 * max_chunk_size
    /\ combined = <<1, 2, 3>>

\* The document has a heading block.
HasHeading(d) ==
    \E i \in DOMAIN d.pages : \E j \in DOMAIN d.pages[i] :
        chapter_pattern_match(Lower(strip(d.pages[i][j])))

\* C14 (segmentation).  For a readable document with a heading block,
\* extract_chapters returns a list that is not empty, of segments that are
\* not empty, one of which starts at a heading; these are the segments
\* pdf_to_speech gets.
C14_SegmentsAtHeadings ==
    (pc \in {"extracted", "merged"} /\ segment_by_chapter
         /\ doc.fault = "none" /\ HasHeading(doc)) =>
        /\ ~chapters.raised
        /\ chapters.chapters # <<>>
        /\ \A i \in DOMAIN chapters.chapters : chapters.chapters[i] # <<>>
        /\ \E i \in DOMAIN chapters.chapters :
               chapter_pattern_match(Lower(chapters.chapters[i]))
        /\ Len(text_segments) = Len(chapters.chapters)

\* C15 (metadata merge).  Field by field, the merged metadata holds the
\* caller's value where the caller gave one and the extracted value where
\* not.
C15_MetadataMerge ==
    pc = "merged" =>
        /\ DOMAIN metadata = DOMAIN extracted_metadata \cup DOMAIN user_metadata
        /\ \A k \in DOMAIN metadata :
               metadata[k] = IF k \in DOMAIN user_metadata
                             THEN user_metadata[k] ELSE extracted_metadata[k]

\* C15's case: the document gives title and author, the caller a title.
C15_Witness ==
    /\ pc = "merged"
    /\ extracted_metadata = [title |-> Str(<<"A">>), author |-> Str(<<"A">>)]
    /\ DOMAIN user_metadata = {"title"}
    /\ metadata = [title |-> Str(<<"C">>), author |-> Str(<<"A">>)]

\* The document has no value for the key.
NoValue(d, k) == k \notin DOMAIN d.info \/ ~Truthy(d.info[k])

\* C16 (metadata defaults).  For a readable document without a title the
\* extracted title is the base file name, without an author the extracted
\* author is "Unknown Author"; with no metadata of the caller, the title and
\* the author handed to text_to_speech are neither None nor empty.
C16_MetadataDefaults ==
    (pc \in {"extracted", "merged"} /\ doc.fault = "none") =>
        /\ NoValue(doc, "title") => extracted_metadata.title = Str(doc.name)
        /\ NoValue(doc, "author") => extracted_metadata.author = UnknownAuthor
        /\ (pc = "merged" /\ DOMAIN user_metadata = {}) =>
               (Truthy(metadata.title) /\ Truthy(metadata.author))

\* C17 (extraction errors are recovered).  When opening or reading the
\* document raised, with or without segmentation, the call has returned to
\* pdf_to_speech with no segment and with the base file name and "Unknown
\* Author" as metadata.
C17_ExtractionRecovers ==
    (pc \in {"extracted", "merged"} /\ (doc.fault # "none" \/ chapters.raised)) =>
        /\ text_segments = <<>>
        /\ extracted_metadata = [title |-> Str(doc.name), author |-> UnknownAuthor]

\* C17's case: a page could not be read after the title of the document
\* was.
C17_Witness ==
    /\ pc = "extracted"
    /\ doc.fault = "read"
    /\ ~NoValue(doc, "title")
    /\ ~segment_by_chapter

NoDuplicate(s) == \A i, j \in DOMAIN s : i # j => s[i] # s[j]

\* C19 (once per document).  In one run pdf_to_speech is called at most once
\* for a document, and the progress file never lists a document twice.
C19_AtMostOncePerDocument ==
    /\ NoDuplicate(invoked)
    /\ NoDuplicate(progress_file.lines)

\* C20 (a document without segments).  A document that was given no segment
\* has no output file when pdf_to_speech returns, it is recorded as
\* completed, and a later run that finds it in the progress file does not
\* convert it.
C20_EmptyExtractionRecorded ==
    /\ (pc = "segments" /\ text_segments = <<>>) => exported = {}
    /\ pc = "loop" => silent \subseteq Listed
    /\ InPdfToSpeech => pdf_file \notin (silent \cap ListedAtStart)

====
